---------------------------- MODULE Spec2Model ----------------------------
(***************************************************************************)
(* Model of gamearchivejs: the autodetection engine (GameArchive.          *)
(* findHandler), the base handler's checkLimits and the F.A.S.T. .DAT      *)
(* handler (identify / parse / generate).                                  *)
(*                                                                         *)
(* Buffers are sequences of bytes (0..255).  Strings are sequences of      *)
(* character codes.  JavaScript's undefined / true / false are the         *)
(* strings "undefined" / "true" / "false" wherever a value is tri-state.   *)
(* Each handler operation is one action; its loop is an operator that     *)
(* applies the loop body to the loop's local variables.                    *)
(***************************************************************************)
EXTENDS Integers, Sequences, FiniteSets, TLC

VARIABLES
    content,    \* the buffer handed to identify() / parse()
    idRet,      \* identify: "idle", "running", or the returned boolean "true"/"false"
    walked,     \* identify: offsets of the records it read (history)
    fhIdx,      \* findHandler: index into fileTypes of the next handler
    handlers,   \* findHandler: the local `handlers`
    verdicts,   \* findHandler: confidence.valid seen for each handler (history)
    fhDone,     \* findHandler: TRUE once it has returned `handlers`
    pStatus,    \* parse: "idle", "running", "done" (returned) or "error" (threw)
    files,      \* parse: archive.files of the archive it returned
    archive,    \* generate: archive.files of the archive to write
    gStatus,    \* generate: "idle", "running", "done" (returned) or "error" (threw)
    gOut,       \* generate: the bytes written to the output RecordBuffer
    gEntries,   \* generate: the entries handed to writeRecord (history)
    lastCall    \* the latest accessor call on a parsed file and what it returned

identifyVars == <<idRet, walked>>
findVars == <<fhIdx, handlers, verdicts, fhDone>>
parseVars == <<pStatus, files>>
generateVars == <<archive, gStatus, gOut, gEntries>>

vars == <<content, identifyVars, findVars, parseVars, generateVars, lastCall>>

-----------------------------------------------------------------------------
(* Program constants *)

FATENTRY_LEN == 37

MAX_FILES == 1024

\* Length of the fixed filename field, RecordType.string.fixed.reqTerm(31).
NAME_FIELD_LEN == 31

FORMAT_ID == "arc-dat-fast"

\* The registry, in priority order.  arc-rff-blood exports a list that is
\* spread into the registry; it is represented by one entry.
fileTypes ==
    << "arc-bnk-harry", "arc-epf-eastpoint", "arc-glb-raptor", "arc-grp-build",
       "arc-hog-descent", "arc-rff-blood", "arc-wad-doom", "arc-fixed-ddave_exe",
       "arc-dat-fast", "arc-dat-wacky", "arc-pod-tv", "arc-vol-cosmo",
       "arc-lbr-vinyl" >>

-----------------------------------------------------------------------------
(* Bounds of the model *)

\* Largest number of records in an enumerated small input buffer.
MaxRecs == 2

-----------------------------------------------------------------------------
(* Sequence helpers *)

\* A function on 1..n as a sequence.
Tuple(f) == << >> \o f

\* s[from+1 .. from+len], zero-based `from`, clipped to the sequence.
Slice(s, from, len) ==
    LET n == IF from + len > Len(s) THEN Len(s) - from ELSE len
    IN  IF n <= 0 THEN << >> ELSE Tuple([k \in 1..n |-> s[from + k]])

Min(a, b) == IF a < b THEN a ELSE b

-----------------------------------------------------------------------------
(* The byte cursor (RecordBuffer) and the record layout *)

\* Code page 437 <-> character code, for the characters this module uses.
\* Bytes below 128 are ASCII; 128..130 are the code page's C-cedilla,
\* u-umlaut, e-acute; every other high byte decodes to some character above
\* 255, represented as 256 + byte.
Cp437Decode(b) ==
    IF b < 128 THEN b
    ELSE IF b = 128 THEN 199
    ELSE IF b = 129 THEN 252
    ELSE IF b = 130 THEN 233
    ELSE 256 + b

\* Characters the code page cannot represent are written as "?" (63).
Cp437Encode(c) ==
    IF c < 128 THEN c
    ELSE IF c = 199 THEN 128
    ELSE IF c = 252 THEN 129
    ELSE IF c = 233 THEN 130
    ELSE IF c >= 256 + 131 /\ c <= 256 + 255 THEN c - 256
    ELSE 63

\* RecordType.int.u16le read at zero-based offset pos.
ReadU16le(buf, pos) == buf[pos + 1] + 256 * buf[pos + 2]

\* RecordType.int.u16le write: DataView.setUint16 keeps the low 16 bits.
WriteU16le(v) == << v % 256, (v \div 256) % 256 >>

\* RecordType.string.fixed.reqTerm(31) read: the characters before the
\* first null of the field; the last byte of the field is the required
\* terminator and is never part of the string.
ReadName(buf, pos) ==
    LET maxChars == NAME_FIELD_LEN - 1
        nulls == {k \in 1..maxChars : buf[pos + k] = 0}
        n == IF nulls = {} THEN maxChars
             ELSE (CHOOSE k \in nulls : \A j \in nulls : k <= j) - 1
    IN  Tuple([k \in 1..n |-> Cp437Decode(buf[pos + k])])

\* RecordType.string.fixed.reqTerm(31) write: at most 30 characters, then
\* nulls up to the field length.
WriteName(name) ==
    LET n == Min(Len(name), NAME_FIELD_LEN - 1)
    IN  Tuple([k \in 1..NAME_FIELD_LEN |->
                  IF k <= n THEN Cp437Encode(name[k]) ELSE 0])

\* buffer.readRecord(recordTypes.fatEntry) at zero-based offset pos.
ReadFatEntry(buf, pos) ==
    [ typeCode         |-> ReadU16le(buf, pos),
      compressedSize   |-> ReadU16le(buf, pos + 2),
      name             |-> ReadName(buf, pos + 4),
      decompressedSize |-> ReadU16le(buf, pos + 35) ]

\* buffer.writeRecord(recordTypes.fatEntry, entry): the 37 bytes written.
WriteFatEntry(entry) ==
    WriteU16le(entry.typeCode) \o WriteU16le(entry.compressedSize)
        \o WriteName(entry.name) \o WriteU16le(entry.decompressedSize)

-----------------------------------------------------------------------------
(* Archive_DAT_FAST.identify *)

\* Mutant of InvalidChar: the space is taken for a filename character.
InvalidChar_SpaceAllowed(cc) == (cc < 32) \/ (cc > 126)

\* The test of identify() on one character of a filename.
InvalidChar(cc) == (cc <= 32) \/ (cc > 126)

HasInvalidChar(name) == \E k \in 1..Len(name) : InvalidChar(name[k])

\* The locals of identify() on entry: i, the buffer position, the value
\* returned ("running" while the loop runs) and the records read.
IdentifyStart == [i |-> 0, pos |-> 0, ret |-> "running", walked |-> << >>]

\* The body of the loop of identify().
IdentifyBody(buf, st) ==
    LET bytesLeft == Len(buf) - st.pos IN
    IF bytesLeft = 0
    THEN [st EXCEPT !.ret = "true"]                 \* EOF at correct place
    ELSE IF bytesLeft < FATENTRY_LEN
    THEN [st EXCEPT !.ret = "false"]                \* Incomplete FAT entry
    ELSE LET file == ReadFatEntry(buf, st.pos)
             after == st.pos + FATENTRY_LEN
             read == [st EXCEPT !.walked = Append(st.walked, st.pos)]
         IN  IF HasInvalidChar(file.name)
             THEN [read EXCEPT !.ret = "false"]     \* invalid char
             ELSE IF Len(buf) - after < file.compressedSize
             THEN [read EXCEPT !.ret = "false"]     \* would go past EOF
             ELSE [read EXCEPT !.pos = after + file.compressedSize,  \* seekRel
                               !.i = st.i + 1]

\* n iterations of the loop from st, or fewer when the body returns.
RECURSIVE IdentifyLoop(_, _, _)
IdentifyLoop(buf, st, n) ==
    IF st.ret # "running" \/ n = 0 THEN st
    ELSE IF n = 1 THEN IdentifyBody(buf, st)
    ELSE LET half == IdentifyLoop(buf, st, n \div 2)
         IN  IdentifyLoop(buf, half, n - (n \div 2))

\* identify(content): at most MAX_FILES iterations, then `return false`
\* (too many files).
FatIdentify(buf) ==
    LET st == IdentifyLoop(buf, IdentifyStart, MAX_FILES)
    IN  [ret    |-> IF st.ret = "running" THEN "false" ELSE st.ret,
         walked |-> st.walked]

\* The call identify(content).
Identify ==
    /\ idRet = "running"
    /\ LET r == FatIdentify(content)
       IN  idRet' = r.ret /\ walked' = r.walked
    /\ UNCHANGED <<content, findVars, parseVars, generateVars, lastCall>>

-----------------------------------------------------------------------------
(* GameArchive.findHandler *)

\* A JavaScript value returned by a handler's identify(): either a
\* primitive boolean, or an object whose .valid property is `value`.
BooleanValue(b) == [kind |-> "boolean", value |-> b]
ConfidenceObject(v) == [kind |-> "object", value |-> v]

\* confidence.valid: property access on a primitive boolean is undefined.
PropValid(confidence) ==
    IF confidence.kind = "object" THEN confidence.value ELSE "undefined"

\* What the handlers of the registry return from identify().  The F.A.S.T.
\* handler returns what its identify() computed; the other handlers are not
\* part of the model and may return any verdict object.
IdentifyReturns(id) ==
    IF id = FORMAT_ID
    THEN IF idRet = "running" THEN {} ELSE {BooleanValue(idRet)}
    ELSE {ConfidenceObject(v) : v \in {"true", "false", "undefined"}}

\* Mutant of OnCertain: the earlier possible matches are kept.
OnCertain_KeepPossible(hs, x) == Append(hs, x)

\* `handlers = [x]` on a certain match.
OnCertain(hs, x) == << x >>

\* `handlers.push(x)` on a possible match.
OnPossible(hs, x) == Append(hs, x)

\* One iteration of the loop of findHandler() over fileTypes; the iteration
\* that breaks, or the last one, also returns `handlers`.
FindHandlerStep ==
    /\ ~fhDone
    /\ fhIdx <= Len(fileTypes)
    /\ LET x == fileTypes[fhIdx] IN
       \E confidence \in IdentifyReturns(x) :
          LET valid == PropValid(confidence) IN
          /\ verdicts' = Append(verdicts, valid)
          /\ IF valid = "true"
             THEN /\ handlers' = OnCertain(handlers, x)
                  /\ fhDone' = TRUE                       \* break; return
                  /\ fhIdx' = fhIdx
             ELSE /\ handlers' = IF valid = "undefined"
                                 THEN OnPossible(handlers, x)
                                 ELSE handlers
                  /\ fhIdx' = fhIdx + 1
                  /\ fhDone' = (fhIdx = Len(fileTypes))   \* loop ends; return
    /\ UNCHANGED <<content, identifyVars, parseVars, generateVars, lastCall>>

\* The call x.identify(content, filename) that findHandler makes when the
\* loop is at the F.A.S.T. handler.
FindHandlerIdentify ==
    /\ ~fhDone
    /\ fhIdx <= Len(fileTypes)
    /\ fileTypes[fhIdx] = FORMAT_ID
    /\ Identify

-----------------------------------------------------------------------------
(* The type table and the compression chain *)

\* Strings of this module as character codes.
ExtSND == << 46, 115, 110, 100 >>                  \* ".snd"

\* Object.keys(FASTTypes): integer keys, in ascending order.
FASTTypeCodes == << 0, 1, 2, 3, 4, 5, 6, 7, 8, 12, 13, 14, 16, 32, 64 >>

\* FASTTypes[code] for a code of the table: [0] is ext, [1] is type.
FASTTypes(code) ==
    CASE code = 0  -> [ext |-> << 46, 109, 105, 102 >>, type |-> "map/fast-info"]
      [] code = 1  -> [ext |-> << 46, 109, 98, 103 >>,  type |-> "map/fast-bg"]
      [] code = 2  -> [ext |-> << 46, 109, 102, 103 >>, type |-> "map/fast-fg"]
      [] code = 3  -> [ext |-> << 46, 116, 98, 103 >>,  type |-> "tileset/fast-4p"]
      [] code = 4  -> [ext |-> << 46, 116, 102, 103 >>, type |-> "tileset/fast-5p"]
      [] code = 5  -> [ext |-> << 46, 116, 98, 110 >>,  type |-> "tileset/fast-5p"]
      [] code = 6  -> [ext |-> << 46, 115, 103, 108 >>, type |-> "map/fast-spritelist"]
      [] code = 7  -> [ext |-> << 46, 109, 115, 112 >>, type |-> "map/fast-sprites"]
      [] code = 8  -> [ext |-> << >>,                   type |-> "sound/inverse"]
      [] code = 12 -> [ext |-> << 46, 112, 98, 103 >>,  type |-> "data/fast-tileprops"]
      [] code = 13 -> [ext |-> << 46, 112, 102, 103 >>, type |-> "data/fast-tileprops"]
      [] code = 14 -> [ext |-> << 46, 112, 97, 108 >>,  type |-> "palette/ega"]
      [] code = 16 -> [ext |-> << 46, 112, 98, 110 >>,  type |-> "data/fast-tileprops"]
      [] code = 32 -> [ext |-> << >>,                   type |-> "undefined"]
      [] code = 64 -> [ext |-> << 46, 115, 112, 114 >>, type |-> "image/fast-sprite"]

InFASTTypes(code) == \E k \in 1..Len(FASTTypeCodes) : FASTTypeCodes[k] = code

\* cmpLZW.obscure(cmpRLE.obscure(data), cmpDefaultParams).  The codecs are
\* an external library; this stand-in is lossless, changes every byte and
\* ends the stream with a two-byte end-of-stream code.
CmpObscure(data) ==
    LET n == Len(data) IN
    Tuple([k \in 1..(n + 2) |->
        IF k <= n THEN (data[k] + 1) % 256
        ELSE IF k = n + 1 THEN 0 ELSE 1])

\* cmpRLE.reveal(cmpLZW.reveal(raw, params)): the inverse, which leaves one
\* extra null byte after the data.
CmpReveal(raw) ==
    LET n == Len(raw) IN
    IF n < 2 THEN << >>
    ELSE Tuple([k \in 1..(n - 1) |->
            IF k <= n - 2 THEN (raw[k] + 255) % 256 ELSE 0])

-----------------------------------------------------------------------------
(* Archive_DAT_FAST.parse *)

\* Mutant of ParsedFile: nativeSize is always the decompressed-size field,
\* also for a record stored uncompressed.
ParsedFile_NativeFromField(fatEntry, offset) ==
    LET known == InFASTTypes(fatEntry.typeCode)
        plain == fatEntry.decompressedSize = 0
    IN  [ name       |-> IF known
                         THEN fatEntry.name \o FASTTypes(fatEntry.typeCode).ext
                         ELSE fatEntry.name,
          type       |-> IF known
                         THEN FASTTypes(fatEntry.typeCode).type
                         ELSE "undefined",
          diskSize   |-> fatEntry.compressedSize,
          offset     |-> offset,
          nativeSize |-> fatEntry.decompressedSize,
          compressed |-> IF plain THEN "false" ELSE "true",
          encrypted  |-> "undefined",
          rawOffset  |-> offset,
          decode     |-> ~plain ]

\* The Archive.File that one iteration of parse() builds from fatEntry.
\* rawOffset is the `offset` captured by the getRaw closure; decode says
\* whether getContent was overridden to decompress.
ParsedFile(fatEntry, offset) ==
    LET known == InFASTTypes(fatEntry.typeCode)
        plain == fatEntry.decompressedSize = 0
    IN  [ name       |-> IF known
                         THEN fatEntry.name \o FASTTypes(fatEntry.typeCode).ext
                         ELSE fatEntry.name,
          type       |-> IF known
                         THEN FASTTypes(fatEntry.typeCode).type
                         ELSE "undefined",
          diskSize   |-> fatEntry.compressedSize,
          offset     |-> offset,
          nativeSize |-> IF plain THEN fatEntry.compressedSize
                         ELSE fatEntry.decompressedSize,
          compressed |-> IF plain THEN "false" ELSE "true",
          encrypted  |-> "undefined",
          rawOffset  |-> offset,
          decode     |-> ~plain ]

\* The locals of parse() on entry.
ParseStart ==
    [i |-> 0, pos |-> 0, nextOffset |-> FATENTRY_LEN, files |-> << >>,
     status |-> "running"]

\* The body of the loop of parse().  readRecord on fewer than FATENTRY_LEN
\* remaining bytes reads past the end of the DataView and throws.
ParseBody(buf, st) ==
    IF Len(buf) - st.pos = 0
    THEN [st EXCEPT !.status = "done"]              \* break
    ELSE IF Len(buf) - st.pos < FATENTRY_LEN
    THEN [st EXCEPT !.status = "error"]
    ELSE LET fatEntry == ReadFatEntry(buf, st.pos) IN
         [st EXCEPT
            !.files = Append(st.files, ParsedFile(fatEntry, st.nextOffset)),
            !.nextOffset = st.nextOffset + fatEntry.compressedSize + FATENTRY_LEN,
            !.pos = st.pos + FATENTRY_LEN + fatEntry.compressedSize,  \* seekRel
            !.i = st.i + 1]

\* n iterations of the loop from st, or fewer when the body breaks or throws.
RECURSIVE ParseLoop(_, _, _)
ParseLoop(buf, st, n) ==
    IF st.status # "running" \/ n = 0 THEN st
    ELSE IF n = 1 THEN ParseBody(buf, st)
    ELSE LET half == ParseLoop(buf, st, n \div 2)
         IN  ParseLoop(buf, half, n - (n \div 2))

\* parse({main: content}): at most MAX_FILES iterations, then
\* `return archive`.
FatParse(buf) ==
    LET st == ParseLoop(buf, ParseStart, MAX_FILES)
    IN  [status |-> IF st.status = "running" THEN "done" ELSE st.status,
         files  |-> st.files]

\* The caller invokes parse({main: content}) once identify() has returned.
Parse ==
    /\ idRet \in {"true", "false"}
    /\ pStatus = "idle"
    /\ LET r == FatParse(content)
       IN  pStatus' = r.status /\ files' = r.files
    /\ UNCHANGED <<content, identifyVars, findVars, generateVars, lastCall>>

-----------------------------------------------------------------------------
(* The lazy accessors of a parsed file *)

\* buffer.getU8(offset, len): a typed-array view of the range, which cannot
\* be made past the end of the buffer.
GetU8(buf, offset, len) ==
    IF offset + len > Len(buf)
    THEN [threw |-> TRUE, bytes |-> << >>]
    ELSE [threw |-> FALSE, bytes |-> Slice(buf, offset, len)]

\* file.getRaw = () => buffer.getU8(offset, file.diskSize)
GetRaw(file) == GetU8(content, file.rawOffset, file.diskSize)

\* file.getContent: Archive.File's default returns getRaw(); for a
\* compressed file parse() overrides it to decompress and truncate.
GetContent(file) ==
    LET raw == GetRaw(file) IN
    IF ~file.decode \/ raw.threw THEN raw
    ELSE [threw |-> FALSE,
          bytes |-> Slice(CmpReveal(raw.bytes), 0, file.nativeSize)]

-----------------------------------------------------------------------------
(* Archive_DAT_FAST.metadata and ArchiveHandler.checkLimits *)

maxFilenameLen == 30

\* metadata().caps of the F.A.S.T. handler: the base class's defaults with
\* attributes.compressed and maxFilenameLen overridden.
Caps ==
    [ maxFileCount   |-> "undefined",
      lastModified   |-> FALSE,
      attributes     |-> [compressed |-> TRUE, encrypted |-> FALSE],
      maxFilenameLen |-> maxFilenameLen ]

\* The k-th smallest element of a finite set of integers.
Nth(S, k) == CHOOSE x \in S : Cardinality({y \in S : y <= x}) = k

\* checkLimits(archive): the issues, in the order they are pushed.  The
\* only checks made are the file count (when the format has a maximum) and
\* the filename lengths (when the format has a maximum).
CheckLimits(arch) ==
    LET countIssue ==
            IF Caps.maxFileCount # "undefined" /\ Len(arch) > Caps.maxFileCount
            THEN << [issue |-> "maxFileCount", file |-> 0] >>
            ELSE << >>
        long == {k \in 1..Len(arch) : Len(arch[k].name) > Caps.maxFilenameLen}
        nameIssues ==
            Tuple([j \in 1..Cardinality(long) |->
                      [issue |-> "maxFilenameLen", file |-> Nth(long, j)]])
    IN  countIssue \o nameIssues

\* The files checkLimits(archive) passes to Debug.warn: nativeSize is 0 and
\* the content is not empty.
CheckLimitsWarnings(arch) ==
    {k \in 1..Len(arch) : arch[k].nativeSize = 0 /\ Len(arch[k].data) # 0}

-----------------------------------------------------------------------------
(* Archive_DAT_FAST.generate *)

\* String.prototype.toLowerCase on one character (ASCII and Latin-1).
ToLowerChar(c) ==
    IF (c >= 65 /\ c <= 90) \/ (c >= 192 /\ c <= 222 /\ c # 215)
    THEN c + 32 ELSE c

ToLowerCase(str) == Tuple([k \in 1..Len(str) |-> ToLowerChar(str[k])])

\* str.substr(-4)
SubstrLast4(str) ==
    IF Len(str) <= 4 THEN str ELSE SubSeq(str, Len(str) - 3, Len(str))

\* str.substr(0, str.length - 4)
SubstrDropLast4(str) ==
    IF Len(str) <= 4 THEN << >> ELSE SubSeq(str, 1, Len(str) - 4)

\* Mutant of ExtOf: the extension is compared with its letter case.
ExtOf_CaseSensitive(name) == SubstrLast4(name)

\* The extension generate() matches against the table.
ExtOf(name) == ToLowerCase(SubstrLast4(name))

\* The typeCode and name of the entry generate() builds for a file name.
EntryFor(name) ==
    LET ext == ExtOf(name)
        hits == {k \in 1..Len(FASTTypeCodes) :
                    /\ FASTTypes(FASTTypeCodes[k]).ext # << >>
                    /\ ext = FASTTypes(FASTTypeCodes[k]).ext}
    IN  IF ext = ExtSND
        THEN [typeCode |-> 8, name |-> name]
        ELSE IF hits = {}
        THEN [typeCode |-> 32, name |-> name]
        ELSE [typeCode |-> FASTTypeCodes[Nth(hits, 1)],
              name     |-> SubstrDropLast4(name)]

\* Mutant of LengthMismatch: a nativeSize of 0 is taken for "unset".
LengthMismatch_NonZeroOnly(nativeData, file) ==
    file.nativeSize # 0 /\ Len(nativeData) # file.nativeSize

\* The safety check of generate().
LengthMismatch(nativeData, file) == Len(nativeData) # file.nativeSize

\* The bytes to store and the two size fields of the entry.
DiskDataFor(file, nativeData) ==
    IF file.compressed = "false"
    THEN [diskData         |-> nativeData,
          decompressedSize |-> 0,
          compressedSize   |-> file.nativeSize]
    ELSE LET d == CmpObscure(nativeData) IN
         [diskData         |-> d,
          decompressedSize |-> file.nativeSize,
          compressedSize   |-> Len(d)]

\* The callback of the forEach of generate() on one file; st holds the
\* bytes written, the entries written and whether the callback threw.
GenerateBody(st, file) ==
    LET nativeData == file.data
        d == DiskDataFor(file, nativeData)
        entry == [ typeCode         |-> EntryFor(file.name).typeCode,
                   name             |-> EntryFor(file.name).name,
                   decompressedSize |-> d.decompressedSize,
                   compressedSize   |-> d.compressedSize ]
    IN  IF LengthMismatch(nativeData, file)
        THEN [st EXCEPT !.status = "error"]
        ELSE [st EXCEPT
                !.entries = Append(st.entries,
                                [entry |-> entry, at |-> Len(st.out)]),
                !.out = st.out \o WriteFatEntry(entry) \o d.diskData]

\* archive.files.forEach over the files from index k on; a throw ends it.
RECURSIVE GenerateLoop(_, _, _)
GenerateLoop(arch, st, k) ==
    IF st.status = "error" \/ k > Len(arch) THEN st
    ELSE GenerateLoop(arch, GenerateBody(st, arch[k]), k + 1)

\* generate(archive); "done" is the `return { main: buffer.getU8() }`.
FatGenerate(arch) ==
    LET st == GenerateLoop(arch,
                  [out |-> << >>, entries |-> << >>, status |-> "running"], 1)
    IN  [st EXCEPT !.status = IF st.status = "running" THEN "done" ELSE "error"]

\* The caller invokes generate(archive) on an archive it has built.
Generate ==
    /\ gStatus = "idle"
    /\ idRet = "idle"
    /\ LET r == FatGenerate(archive)
       IN  gStatus' = r.status /\ gOut' = r.out /\ gEntries' = r.entries
    /\ UNCHANGED <<content, archive, identifyVars, findVars, parseVars, lastCall>>

\* The caller hands generate()'s result .main to identify() and parse().
LoadGenerated ==
    /\ gStatus = "done"
    /\ idRet = "idle"
    /\ content' = gOut
    /\ idRet' = "running"
    /\ walked' = << >>
    /\ UNCHANGED <<findVars, parseVars, generateVars, lastCall>>

-----------------------------------------------------------------------------
(* The caller's use of a parsed archive *)

NoCall == [op |-> "none", file |-> 0, threw |-> FALSE, bytes |-> << >>]

\* file.getRaw() on file k of the parsed archive.
CallGetRaw(k) ==
    /\ pStatus = "done"
    /\ k \in 1..Len(files)
    /\ lastCall' = [op |-> "getRaw", file |-> k,
                    threw |-> GetRaw(files[k]).threw,
                    bytes |-> GetRaw(files[k]).bytes]
    /\ UNCHANGED <<content, identifyVars, findVars, parseVars, generateVars>>

\* file.getContent() on file k of the parsed archive.
CallGetContent(k) ==
    /\ pStatus = "done"
    /\ k \in 1..Len(files)
    /\ lastCall' = [op |-> "getContent", file |-> k,
                    threw |-> GetContent(files[k]).threw,
                    bytes |-> GetContent(files[k]).bytes]
    /\ UNCHANGED <<content, identifyVars, findVars, parseVars, generateVars>>


\* The caller assigns file.diskSize of file k of the parsed archive.
SetDiskSize(k, v) ==
    /\ pStatus = "done"
    /\ k \in 1..Len(files)
    /\ files' = [files EXCEPT ![k].diskSize = v]
    /\ UNCHANGED <<content, identifyVars, findVars, generateVars, lastCall,
                   pStatus>>

\* The caller assigns file.nativeSize of file k of the parsed archive.
SetNativeSize(k, v) ==
    /\ pStatus = "done"
    /\ k \in 1..Len(files)
    /\ files' = [files EXCEPT ![k].nativeSize = v]
    /\ UNCHANGED <<content, identifyVars, findVars, generateVars, lastCall,
                   pStatus>>

-----------------------------------------------------------------------------
(* Inputs *)

\* Largest number of files in an enumerated archive handed to generate().
MaxFiles == 2

\* Largest size a caller assigns to file.diskSize / file.nativeSize.
MaxAssignedSize == 2

\* The first size that does not fit the 16-bit size fields.
BigSize == 65536

NameA == << 65 >>                                   \* "A"
NameLEVEL1 == << 76, 69, 86, 69, 76, 49 >>          \* "LEVEL1"
NameLEVEL1mbg == NameLEVEL1 \o << 46, 109, 98, 103 >>   \* "LEVEL1.mbg"
NameLEVEL1MBG == NameLEVEL1 \o << 46, 77, 66, 71 >>     \* "LEVEL1.MBG"
NameXsnd == << 88 >> \o ExtSND                      \* "X.snd"
NameSpace == << 65, 32, 66 >>                       \* "A B"
NameHigh == << 65, 233 >>                           \* "A" e-acute
NameCtl == << 65, 7 >>                              \* "A" BEL
NameLong == Tuple([k \in 1..(maxFilenameLen + 1) |-> 66])  \* 31 times "B"

\* A record followed by its body, as found in a container.
RecordBytes(r) ==
    WriteFatEntry([ typeCode         |-> r.typeCode,
                    compressedSize   |-> r.declared,
                    name             |-> r.name,
                    decompressedSize |-> r.dec ]) \o r.body

RecChoices ==
    { [typeCode |-> 1,  name |-> NameLEVEL1, declared |-> 2, dec |-> 0,
       body |-> << 10, 20 >>],
      [typeCode |-> 32, name |-> NameA, declared |-> 0, dec |-> 0,
       body |-> << >>],
      [typeCode |-> 8,  name |-> NameA, declared |-> 3, dec |-> 1,
       body |-> CmpObscure(<< 5 >>)],
      [typeCode |-> 99, name |-> << >>, declared |-> 1, dec |-> 0,
       body |-> << 7 >>],
      [typeCode |-> 32, name |-> NameSpace, declared |-> 0, dec |-> 0,
       body |-> << >>],
      [typeCode |-> 32, name |-> NameHigh, declared |-> 1, dec |-> 0,
       body |-> << 7 >>],
      [typeCode |-> 32, name |-> NameCtl, declared |-> 0, dec |-> 0,
       body |-> << >>],
      [typeCode |-> 32, name |-> NameA, declared |-> 5, dec |-> 0,
       body |-> << 7 >>] }

RECURSIVE Flatten(_)
Flatten(rs) ==
    IF rs = << >> THEN << >> ELSE RecordBytes(Head(rs)) \o Flatten(Tail(rs))

\* Trailing bytes after the last record: none, or 10 bytes.
Fragments == { << >>, Tuple([k \in 1..10 |-> 65]) }

SmallInputs ==
    { Flatten(rs) \o f :
        rs \in UNION { [1..n -> RecChoices] : n \in 0..MaxRecs },
        f \in Fragments }

\* n records with name "A" and no body.
ManyRecords(n) ==
    LET rec == WriteFatEntry([ typeCode |-> 32, compressedSize |-> 0,
                               name |-> NameA, decompressedSize |-> 0 ])
    IN  Tuple([k \in 1..(n * FATENTRY_LEN) |->
                  rec[((k - 1) % FATENTRY_LEN) + 1]])

\* MAX_FILES records whose last one declares a body past the end.
ManyRecordsLastShort ==
    Tuple([ManyRecords(MAX_FILES) EXCEPT
              ![(MAX_FILES - 1) * FATENTRY_LEN + 3] = 9])

LargeInputs ==
    { ManyRecords(MAX_FILES - 1), ManyRecords(MAX_FILES),
      ManyRecords(MAX_FILES + 1), ManyRecordsLastShort }

Inputs == SmallInputs \cup LargeInputs

\* Buffers handed to findHandler().
FindInputs ==
    { << >>,
      Tuple([k \in 1..10 |-> 65]),
      Flatten(<< [typeCode |-> 1, name |-> NameLEVEL1, declared |-> 2,
                  dec |-> 0, body |-> << 10, 20 >>] >>),
      Flatten(<< [typeCode |-> 32, name |-> NameA, declared |-> 5,
                  dec |-> 0, body |-> << 7 >>] >>),
      Flatten(<< [typeCode |-> 32, name |-> NameCtl, declared |-> 0,
                  dec |-> 0, body |-> << >>] >>) }

\* Member files a caller builds for generate(): getContent() returns data.
File(name, type, nativeSize, compressed, encrypted, data) ==
    [ name |-> name, type |-> type, nativeSize |-> nativeSize,
      compressed |-> compressed, encrypted |-> encrypted, data |-> data ]

FileChoices ==
    { File(NameLEVEL1mbg, "map/fast-bg", 2, "false", "undefined", << 10, 20 >>),
      File(NameLEVEL1MBG, "map/fast-bg", 1, "true", "undefined", << 5 >>),
      File(NameA, "undefined", 1, "undefined", "undefined", << 9 >>),
      File(NameXsnd, "sound/inverse", 0, "false", "undefined", << >>),
      File(NameA, "undefined", 0, "true", "undefined", << >>),
      File(NameA, "undefined", 2, "false", "undefined", << 1 >>),
      File(NameA, "undefined", 0, "false", "undefined", << 1 >>),
      File(NameLong, "undefined", 0, "false", "undefined", << >>),
      File(NameA, "undefined", 1, "false", "true", << 3 >>),
      File(NameSpace, "undefined", 1, "false", "undefined", << 4 >>),
      File(NameHigh, "undefined", 1, "false", "undefined", << 6 >>) }

BigFile ==
    File(NameA, "undefined", BigSize, "false", "undefined",
         Tuple([k \in 1..BigSize |-> 1]))

BigFileCompressed ==
    File(NameA, "undefined", BigSize, "true", "undefined",
         Tuple([k \in 1..BigSize |-> 1]))

Archives == UNION { [1..n -> FileChoices] : n \in 0..MaxFiles }

\* Archives of one file too large for the 16-bit size fields.
LargeArchives == { << BigFile >>, << BigFileCompressed >> }

-----------------------------------------------------------------------------
(* Specifications *)

IdentifyIdle == idRet = "idle" /\ walked = << >>
IdentifyCalled == idRet = "running" /\ walked = << >>
FindCalled == fhIdx = 1 /\ handlers = << >> /\ verdicts = << >> /\ fhDone = FALSE
ParseIdle == pStatus = "idle" /\ files = << >>
GenerateIdle == gStatus = "idle" /\ gOut = << >> /\ gEntries = << >>

\* findHandler(content, filename) on a buffer.
InitFind ==
    /\ content \in FindInputs
    /\ IdentifyCalled /\ FindCalled /\ ParseIdle /\ GenerateIdle
    /\ archive = << >>
    /\ lastCall = NoCall

NextFind == FindHandlerStep \/ FindHandlerIdentify

SpecFind == InitFind /\ [][NextFind]_vars

\* The caller reads a buffer: identify(content), then parse({main: content}).
InitRead ==
    /\ content \in Inputs
    /\ IdentifyCalled /\ FindCalled /\ ParseIdle /\ GenerateIdle
    /\ archive = << >>
    /\ lastCall = NoCall

\* The caller builds an archive: generate(archive), then identify() and
\* parse() of what it returned.
InitWrite ==
    /\ archive \in Archives
    /\ content = << >>
    /\ IdentifyIdle /\ FindCalled /\ ParseIdle /\ GenerateIdle
    /\ lastCall = NoCall

Init == InitRead \/ InitWrite

Next ==
    \/ Generate
    \/ LoadGenerated
    \/ Identify
    \/ Parse

Spec == Init /\ [][Next]_vars

\* The same, from an archive of one file of BigSize bytes.
InitLarge ==
    /\ archive \in LargeArchives
    /\ content = << >>
    /\ IdentifyIdle /\ FindCalled /\ ParseIdle /\ GenerateIdle
    /\ lastCall = NoCall

SpecLarge == InitLarge /\ [][Next]_vars

\* parse() of a small buffer, then the caller's use of the member files.
AccessInputs ==
    FindInputs \cup
        { Flatten(<< r1, r2 >>) :
            r1, r2 \in { r \in RecChoices : r.typeCode \in {1, 8} } }

InitAccess ==
    /\ content \in AccessInputs
    /\ IdentifyCalled /\ FindCalled /\ ParseIdle /\ GenerateIdle
    /\ archive = << >>
    /\ lastCall = NoCall

NextAccess ==
    \/ Identify
    \/ Parse
    \/ \E k \in 1..Len(files) : CallGetRaw(k)
    \/ \E k \in 1..Len(files) : CallGetContent(k)
    \/ \E k \in 1..Len(files), v \in 0..MaxAssignedSize : SetDiskSize(k, v)
    \/ \E k \in 1..Len(files), v \in 0..MaxAssignedSize : SetNativeSize(k, v)

SpecAccess == InitAccess /\ [][NextAccess]_vars

-----------------------------------------------------------------------------
(* Claims about findHandler (checked under SpecFind) *)

FatIndex == CHOOSE i \in 1..Len(fileTypes) : fileTypes[i] = FORMAT_ID

CertainAt == {i \in 1..Len(verdicts) : verdicts[i] = "true"}
PossibleAt == {i \in 1..Len(verdicts) : verdicts[i] = "undefined"}

\* C1: when findHandler returns, either some handler reported valid ==
\* true, the result is exactly the one-element list holding the first such
\* handler and no handler after it was consulted; or every handler was
\* consulted and the result is exactly the handlers that reported valid ==
\* undefined, in registry order (none that reported false).
C1_FindHandlerResult ==
    fhDone =>
        IF CertainAt # {}
        THEN /\ handlers = << fileTypes[Nth(CertainAt, 1)] >>
             /\ Len(verdicts) = Nth(CertainAt, 1)
        ELSE /\ Len(verdicts) = Len(fileTypes)
             /\ Len(handlers) = Cardinality(PossibleAt)
             /\ \A j \in 1..Len(handlers) :
                    handlers[j] = fileTypes[Nth(PossibleAt, j)]

\* A certain match found after two possible ones, which were discarded.
C1_Witness ==
    /\ fhDone
    /\ Len(handlers) = 1
    /\ Cardinality(PossibleAt) = 2
    /\ CertainAt # {}

\* C2: findHandler honours the F.A.S.T. handler's identify(): when it
\* rejected the content the result does not contain the handler, and when
\* it accepted the content the result is the handler alone and the loop
\* stopped at it.
C2_FatVerdictHonoured ==
    (fhDone /\ Len(verdicts) >= FatIndex) =>
        /\ idRet = "false" =>
              \A j \in 1..Len(handlers) : handlers[j] # FORMAT_ID
        /\ idRet = "true" =>
              handlers = << FORMAT_ID >> /\ Len(verdicts) = FatIndex

-----------------------------------------------------------------------------
(* Claims about identify (checked under Spec) *)

RecordAt(off) == ReadFatEntry(content, off)

\* The offset just after record `off` and its declared body.
EndOfRecord(off) == off + FATENTRY_LEN + RecordAt(off).compressedSize

\* The records identify() read are the records of the container, walked
\* from offset 0: each starts where the previous one's body ends.
WalkIsChain ==
    \A j \in 1..Len(walked) :
        walked[j] = IF j = 1 THEN 0 ELSE EndOfRecord(walked[j - 1])

WalkEnd == IF walked = << >> THEN 0 ELSE EndOfRecord(walked[Len(walked)])

\* Record `off` is whole, has a filename of characters lo..126 only, and
\* declares no more body than the bytes that follow it.
GoodRecord(off, lo) ==
    /\ Len(content) - off >= FATENTRY_LEN
    /\ \A k \in 1..Len(RecordAt(off).name) :
          RecordAt(off).name[k] >= lo /\ RecordAt(off).name[k] <= 126
    /\ RecordAt(off).compressedSize <= Len(content) - off - FATENTRY_LEN

\* The walk reached exactly the end of the buffer after fewer than
\* MAX_FILES records, all of them good.
CleanWalk(lo) ==
    /\ Len(walked) < MAX_FILES
    /\ \A j \in 1..Len(walked) : GoodRecord(walked[j], lo)
    /\ WalkEnd = Len(content)

\* The walk could not have gone further: its last record is bad, or the
\* ceiling is reached, or fewer than FATENTRY_LEN bytes remain.
WalkStopped(lo) ==
    \/ walked # << >> /\ ~GoodRecord(walked[Len(walked)], lo)
    \/ Len(walked) = MAX_FILES
    \/ Len(content) - WalkEnd < FATENTRY_LEN

\* identify() has just returned (parse() is not yet called).
IdentifyReturned == idRet \in {"true", "false"} /\ pStatus = "idle"

\* C3 (as claimed): identify accepts exactly the buffers whose walk is
\* clean, where a filename may hold any printable 7-bit character, the
\* space (32) included.
C3_AcceptsIffCleanWalk_Printable ==
    IdentifyReturned =>
        /\ WalkIsChain
        /\ WalkStopped(32)
        /\ (idRet = "true") <=> CleanWalk(32)

\* C3 (amended): identify accepts exactly the buffers whose walk is clean,
\* where a filename may hold the characters 33..126 only (printable and not
\* the space); it rejects every other buffer.
C3_AcceptsIffCleanWalk ==
    IdentifyReturned =>
        /\ WalkIsChain
        /\ WalkStopped(33)
        /\ (idRet = "true") <=> CleanWalk(33)

\* A buffer rejected only because a filename holds a space.
C3_Witness ==
    /\ IdentifyReturned
    /\ idRet = "false"
    /\ Len(walked) = 2
    /\ CleanWalk(32)
    /\ ~CleanWalk(33)

-----------------------------------------------------------------------------
(* Claims about parse (checked under Spec) *)

\* Each file's offset follows the previous file's record and body, so the
\* last file's end is 37 x fileCount + the sum of the diskSizes.
ParsedOffsetsChain ==
    \A k \in 1..Len(files) :
        files[k].offset =
            IF k = 1 THEN FATENTRY_LEN
            ELSE files[k - 1].offset + files[k - 1].diskSize + FATENTRY_LEN

AccountedBytes ==
    IF files = << >> THEN 0
    ELSE files[Len(files)].offset + files[Len(files)].diskSize

\* C5: parse never returns a silent partial archive: when it returns, the
\* member files account for the whole buffer (37 x fileCount + sum of
\* diskSize = buffer length) and every file's range lies inside the buffer.
C5_NoSilentPartialArchive ==
    pStatus = "done" =>
        /\ ParsedOffsetsChain
        /\ AccountedBytes = Len(content)
        /\ \A k \in 1..Len(files) :
              files[k].offset + files[k].diskSize <= Len(content)

-----------------------------------------------------------------------------
(* Claims about generate and checkLimits (checked under Spec) *)

Accepted == CheckLimits(archive) = << >>

HasLengthMismatch ==
    \E k \in 1..Len(archive) : Len(archive[k].data) # archive[k].nativeSize

\* generate() has returned and its output was parsed.
RoundTripDone == gStatus = "done" /\ idRet # "idle" /\ pStatus = "done"

\* C4: for an archive accepted by checkLimits, generate succeeds, parse of
\* its output succeeds, and the parsed files equal the archive's files one
\* for one in name, type, attributes.compressed and getContent() bytes.
C4_RoundTripIdentity ==
    Accepted =>
        /\ gStatus # "error"
        /\ (gStatus = "done" /\ idRet # "idle") => pStatus # "error"
        /\ RoundTripDone =>
              /\ Len(files) = Len(archive)
              /\ \A k \in 1..Len(files) :
                    /\ files[k].name = archive[k].name
                    /\ files[k].type = archive[k].type
                    /\ files[k].compressed = archive[k].compressed
                    /\ ~GetContent(files[k]).threw
                    /\ GetContent(files[k]).bytes = archive[k].data

C7_CheckLimitsSound ==
    gStatus \in {"done", "error"} =>
        /\ (\E k \in 1..Len(archive) : Len(archive[k].name) > maxFilenameLen)
              => ~Accepted
        /\ (\E k \in 1..Len(archive) :
                archive[k].encrypted = "true" /\ ~Caps.attributes.encrypted)
              => ~Accepted
        /\ (\E k \in 1..Len(archive) :
                archive[k].nativeSize # 0
                    /\ archive[k].nativeSize # Len(archive[k].data))
              => ~Accepted
        /\ Accepted => gStatus = "done"

\* Upper-casing of an ASCII letter, for case-insensitive comparison.
FoldChar(c) == IF c >= 97 /\ c <= 122 THEN c - 32 ELSE c

\* The last four characters of name are ext, whatever the letter case.
EndsWithExt(name, ext) ==
    /\ Len(name) >= 4
    /\ \A k \in 1..4 : FoldChar(name[Len(name) - 4 + k]) = FoldChar(ext[k])

\* The codes of the table that carry an extension.
ExtCodes == {0, 1, 2, 3, 4, 5, 6, 7, 12, 13, 14, 16, 64}

\* The record generate() wrote for file k, read back from its output.
EmittedRecord(k) == ReadFatEntry(gOut, gEntries[k].at)

\* C8: generate chooses the type code from the last 4 characters of the
\* member name, compared case-insensitively: ".snd" gives code 8 with the
\* name whole, a table extension gives its code with the extension
\* stripped, anything else code 32 with the name whole; parse names a
\* record of a table code storedName + extension with the table's type,
\* and a record of code 32 or of an unmapped code storedName with no type.
C8_ExtensionMapping ==
    /\ \A k \in 1..Len(gEntries) :
          LET name == archive[k].name
              e == gEntries[k].entry
              hits == {c \in ExtCodes : EndsWithExt(name, FASTTypes(c).ext)}
          IN  /\ EmittedRecord(k).typeCode = e.typeCode
              /\ Len(e.name) < NAME_FIELD_LEN =>
                    Slice(gOut, gEntries[k].at + 4, NAME_FIELD_LEN)
                        = WriteName(e.name)
              /\ IF EndsWithExt(name, ExtSND)
                 THEN e.typeCode = 8 /\ e.name = name
                 ELSE IF hits # {}
                 THEN /\ e.typeCode \in hits
                      /\ e.name = SubSeq(name, 1, Len(name) - 4)
                 ELSE e.typeCode = 32 /\ e.name = name
    /\ pStatus = "done" =>
          \A k \in 1..Len(files) :
              LET rec == ReadFatEntry(content, files[k].offset - FATENTRY_LEN)
              IN  IF rec.typeCode \in ExtCodes
                  THEN /\ files[k].name = rec.name \o FASTTypes(rec.typeCode).ext
                       /\ files[k].type = FASTTypes(rec.typeCode).type
                  ELSE IF rec.typeCode = 8
                  THEN /\ files[k].name = rec.name
                       /\ files[k].type = "sound/inverse"
                  ELSE /\ files[k].name = rec.name
                       /\ files[k].type = "undefined"

\* A member LEVEL1.MBG was emitted as stored name LEVEL1 with code 1, and
\* that record parsed to LEVEL1.mbg of type map/fast-bg.
C8_Witness ==
    /\ RoundTripDone
    /\ Len(archive) = 2
    /\ archive[2].name = NameLEVEL1MBG
    /\ EmittedRecord(2).typeCode = 1
    /\ EmittedRecord(2).name = NameLEVEL1
    /\ Len(files) = 2
    /\ files[2].name = NameLEVEL1mbg
    /\ files[2].type = "map/fast-bg"

\* The number of body bytes that follow record k in generate()'s output.
BodyBytesAfter(k) ==
    (IF k < Len(gEntries) THEN gEntries[k + 1].at ELSE Len(gOut))
        - gEntries[k].at - FATENTRY_LEN

\* C10: in every record generate emits for an accepted archive, the
\* compressed-size field equals the number of body bytes written after the
\* record, and the decompressed-size field is 0 exactly when the body is
\* stored uncompressed and the file's nativeSize otherwise.
C10_SizeFieldsExact ==
    (Accepted /\ gStatus = "done") =>
        \A k \in 1..Len(gEntries) :
            LET rec == EmittedRecord(k)
                plain == archive[k].compressed = "false"
            IN  /\ rec.compressedSize = BodyBytesAfter(k)
                /\ (rec.decompressedSize = 0) <=> plain
                /\ ~plain => rec.decompressedSize = archive[k].nativeSize

-----------------------------------------------------------------------------
(* Claims about the lazy accessors (checked under SpecAccess) *)

\* The record of parsed file k, as it stands in the source buffer.
SourceRecord(k) == ReadFatEntry(content, files[k].rawOffset - FATENTRY_LEN)

\* The bytes [offset, offset + compressedSize) of file k fixed at parse time.
FixedRange(k) ==
    Slice(content, files[k].rawOffset, SourceRecord(k).compressedSize)

\* C9: getRaw() returns the byte range fixed at parse time, and
\* getContent() the content decoded from it, whatever the caller has
\* assigned to the file's diskSize or nativeSize since.
C9_AccessorsFixedRange ==
    /\ lastCall.op = "getRaw" =>
          /\ ~lastCall.threw
          /\ lastCall.bytes = FixedRange(lastCall.file)
    /\ lastCall.op = "getContent" =>
          /\ ~lastCall.threw
          /\ lastCall.bytes =
                IF SourceRecord(lastCall.file).decompressedSize = 0
                THEN FixedRange(lastCall.file)
                ELSE Slice(CmpReveal(FixedRange(lastCall.file)), 0,
                           SourceRecord(lastCall.file).decompressedSize)

-----------------------------------------------------------------------------
(* Claims about identify and parse together (checked under Spec) *)

\* identify() accepted the buffer and parse() was then called on it.
AcceptedThenParsed == idRet = "true" /\ pStatus # "idle"

\* C11: for a buffer that identify accepts, parse returns one member file
\* per record identify walked, in record order; file k has the record's
\* compressed size as diskSize and starts FATENTRY_LEN after the record, that
\* is after all earlier records and bodies, so the raw ranges are ascending,
\* disjoint and inside the buffer; a record with decompressedSize 0 gives
\* compressed = false and nativeSize = diskSize, any other record gives
\* compressed = true and nativeSize = decompressedSize.
C11_ParseFollowsWalk ==
    AcceptedThenParsed =>
        /\ pStatus = "done"
        /\ Len(files) = Len(walked)
        /\ \A k \in 1..Len(files) :
              LET rec == RecordAt(walked[k]) IN
              /\ files[k].diskSize = rec.compressedSize
              /\ files[k].offset = walked[k] + FATENTRY_LEN
              /\ files[k].offset =
                    IF k = 1 THEN FATENTRY_LEN
                    ELSE files[k - 1].offset + files[k - 1].diskSize
                             + FATENTRY_LEN
              /\ files[k].rawOffset = files[k].offset
              /\ files[k].offset + files[k].diskSize <= Len(content)
              /\ IF rec.decompressedSize = 0
                 THEN /\ files[k].compressed = "false"
                      /\ files[k].nativeSize = files[k].diskSize
                 ELSE /\ files[k].compressed = "true"
                      /\ files[k].nativeSize = rec.decompressedSize

\* An accepted buffer of two records with bodies, the first stored
\* uncompressed and the second compressed, was parsed.
C11_Witness ==
    /\ AcceptedThenParsed
    /\ pStatus = "done"
    /\ Len(files) = 2
    /\ files[1].diskSize > 0
    /\ files[1].compressed = "false"
    /\ files[2].compressed = "true"
    /\ files[2].offset = 2 * FATENTRY_LEN + files[1].diskSize

-----------------------------------------------------------------------------
(* Claims about generate and identify together (checked under Spec) *)

\* identify() has returned on the bytes generate() returned for an archive
\* that checkLimits accepts.
IdentifiedOwnOutput ==
    /\ Accepted
    /\ gStatus = "done"
    /\ content = gOut
    /\ idRet \in {"true", "false"}

\* C12: the handler recognises its own output: for an archive accepted by
\* checkLimits on which generate succeeds, identify accepts the bytes
\* generate returned.
C12_IdentifiesOwnOutput ==
    IdentifiedOwnOutput => idRet = "true"

=============================================================================
